---- MODULE Spec2Model ----
(***************************************************************************)
(* sol-meta contract mocker: mockContract(sources, path, contractName,     *)
(* options) of packages/sol-meta/src/contractMocker.ts.                    *)
(*                                                                         *)
(* A JavaScript object is modelled by a record that carries its identity   *)
(* in the field id: two records with the same id are the same object.      *)
(* Objects of the source catalog have ids <<"src", n>>; objects created by *)
(* a call (object literals, results of the synthesizers) have ids          *)
(* <<"new", k>>.  A JavaScript object used as a dictionary is a function   *)
(* whose DOMAIN is its set of own keys; identifiers are assumed not to     *)
(* collide with the property names of Object.prototype.                    *)
(***************************************************************************)
EXTENDS Integers, Sequences, FiniteSets, TLC

VARIABLES
    sources,    \* the source catalog: path -> {parsed, contracts, scope}
    loaded,     \* the catalog as the loader built it
    call,       \* the arguments of the current call, as they were passed
    options,    \* the options object of the current call, as it is now
    outcome,    \* what the current call returned or threw
    locals,     \* the values of the call's local constants
    trace,      \* the functions the call invoked, in order
    calls       \* how many calls the caller has made

vars == <<sources, loaded, call, options, outcome, locals, trace, calls>>

(***************************************************************************)
(* Bounds of the inputs.                                                   *)
(***************************************************************************)
\* longest literal-argument list of one entry of options.constructors
MaxArgs == 1
\* how many calls one caller makes on a catalog
MaxCalls == 2

(***************************************************************************)
(* Generic helpers.                                                        *)
(***************************************************************************)
Range(s) == {s[i] : i \in 1..Len(s)}

RECURSIVE Concat(_)
\* the concatenation of a sequence of sequences (utils.flatMap after the map)
Concat(ss) == IF ss = <<>> THEN <<>> ELSE Head(ss) \o Concat(Tail(ss))

\* the sequences over S of length at most n
SeqsUpTo(S, n) == UNION {[1..k -> S] : k \in 0..n}

\* the dictionaries whose own keys are a subset of K and whose values are in V
Dicts(K, V) == UNION {[D -> V] : D \in SUBSET K}

(***************************************************************************)
(* AST nodes (solidity-parser-antlr).                                      *)
(***************************************************************************)
Src(n) == <<"src", n>>
New(k) == <<"new", k>>
NoObj == <<"none", 0>>

\* a contract member as the parser produces it
Member(n, type, name, isConstructor, nparams, body, visibility) ==
    [id |-> Src(n), type |-> type, name |-> name, isConstructor |-> isConstructor,
     nparams |-> nparams, body |-> body, visibility |-> visibility,
     gen |-> "parser", of |-> NoObj]

Fn(n, name, nparams, body, visibility) ==
    Member(n, "FunctionDefinition", name, FALSE, nparams, body, visibility)

Ctor(n, nparams) ==
    Member(n, "FunctionDefinition", "", TRUE, nparams, "block", "public")

Var(n, name, visibility) ==
    Member(n, "StateVariableDeclaration", name, FALSE, 0, "none", visibility)

\* utils.userType(name)
userType(name) == [type |-> "UserDefinedTypeName", namePath |-> name]

InheritanceSpecifier(name) == [type |-> "InheritanceSpecifier", baseName |-> userType(name)]

Contract(n, name, bases, subNodes) ==
    [id |-> Src(n), type |-> "ContractDefinition", kind |-> "contract", name |-> name,
     baseContracts |-> [i \in 1..Len(bases) |-> InheritanceSpecifier(bases[i])],
     subNodes |-> subNodes, path |-> "", gen |-> "parser", target |-> ""]

Pragma(n, name) ==
    [id |-> Src(n), type |-> "PragmaDirective", kind |-> "", name |-> name,
     baseContracts |-> <<>>, subNodes |-> <<>>, path |-> "", gen |-> "parser", target |-> ""]

Import(n, path) ==
    [id |-> Src(n), type |-> "ImportDirective", kind |-> "", name |-> "",
     baseContracts |-> <<>>, subNodes |-> <<>>, path |-> path, gen |-> "parser", target |-> ""]

\* the value of a property that is absent
Undefined ==
    [id |-> NoObj, type |-> "undefined", kind |-> "", name |-> "",
     baseContracts |-> <<>>, subNodes |-> <<>>, path |-> "", gen |-> "", target |-> ""]

\* obj[key] of a dictionary
Lookup(obj, key) == IF key \in DOMAIN obj THEN obj[key] ELSE Undefined

BaseNames(contract) ==
    [i \in 1..Len(contract.baseContracts) |-> contract.baseContracts[i].baseName.namePath]

(***************************************************************************)
(* Source catalogs the loader can build.                                   *)
(***************************************************************************)
Ownable == Contract(10, "Ownable", <<>>,
    << Var(11, "_owner", "internal"), Ctor(12, 1), Fn(13, "owner", 0, "block", "public"),
       Fn(14, "renounce", 0, "null", "public") >>)

Base == Contract(20, "Base", <<>>,
    << Ctor(21, 0), Fn(22, "fee", 0, "null", "public"),
       Fn(23, "_helper", 1, "block", "internal"), Fn(24, "rate", 0, "null", "public") >>)

Token == Contract(30, "Token", <<"Ownable", "Base">>,
    << Var(31, "_supply", "internal"), Ctor(32, 2), Fn(33, "rate", 0, "null", "public"),
       Fn(34, "_mint", 2, "block", "internal"), Fn(35, "limit", 1, "null", "external") >>)

Vault == Contract(40, "Vault", <<"Token">>,
    << Ctor(41, 1), Fn(42, "", 0, "null", "external"), Fn(43, "fee", 0, "block", "public"),
       Var(44, "total", "public") >>)

Orphan == Contract(50, "Orphan", <<"Ownable", "Ghost">>,
    << Fn(51, "rate", 0, "null", "public") >>)

TokenCatalog ==
    [p \in {"Token.sol", "Lib.sol"} |->
        IF p = "Token.sol"
        THEN [parsed |-> [type |-> "SourceUnit",
                          children |-> << Pragma(1, "solidity"), Import(2, "Lib.sol"),
                                          Pragma(3, "experimental"), Token, Vault, Orphan >>],
              contracts |-> [n \in {"Token", "Vault", "Orphan"} |->
                               CASE n = "Token" -> Token [] n = "Vault" -> Vault
                                 [] OTHER -> Orphan],
              scope |-> [n \in {"Ownable", "Base", "Token", "Vault", "Orphan"} |->
                               CASE n = "Ownable" -> Ownable [] n = "Base" -> Base
                                 [] n = "Token" -> Token [] n = "Vault" -> Vault
                                 [] OTHER -> Orphan]]
        ELSE [parsed |-> [type |-> "SourceUnit", children |-> << Ownable, Base >>],
              contracts |-> [n \in {"Ownable", "Base"} |->
                               IF n = "Ownable" THEN Ownable ELSE Base],
              scope |-> [n \in {"Ownable", "Base"} |->
                               IF n = "Ownable" THEN Ownable ELSE Base]]]

Root == Contract(60, "Root", <<>>,
    << Ctor(61, 1), Fn(62, "f", 0, "null", "public"), Fn(63, "", 0, "null", "external") >>)

Left == Contract(70, "Left", <<"Root">>,
    << Ctor(71, 0), Fn(72, "g", 1, "null", "public"), Var(73, "_cache", "internal") >>)

Right == Contract(80, "Right", <<"Root">>,
    << Ctor(81, 3), Fn(82, "f", 0, "block", "public") >>)

Bottom == Contract(90, "Bottom", <<"Left", "Right">>,
    << Fn(91, "h", 0, "null", "public"), Fn(92, "_inner", 0, "block", "internal") >>)

Stray == Contract(85, "Stray", <<"Left", "Gone">>, << Fn(86, "h", 0, "null", "public") >>)

Loop == Contract(95, "Loop", <<"Pool">>, << Fn(96, "g", 0, "null", "public") >>)

Pool == Contract(97, "Pool", <<"Loop", "Left">>, << Ctor(98, 1) >>)

DiamondCatalog ==
    [p \in {"Diamond.sol"} |->
        [parsed |-> [type |-> "SourceUnit",
                     children |-> << Import(4, "Other.sol"), Pragma(5, "solidity"),
                                     Root, Left, Right, Stray, Bottom, Loop, Pool >>],
         contracts |-> [n \in {"Left", "Right", "Stray", "Bottom", "Loop"} |->
                          CASE n = "Left" -> Left [] n = "Right" -> Right
                            [] n = "Stray" -> Stray [] n = "Bottom" -> Bottom [] OTHER -> Loop],
         scope |-> [n \in {"Root", "Left", "Right", "Stray", "Bottom", "Loop", "Pool"} |->
                          CASE n = "Root" -> Root [] n = "Left" -> Left [] n = "Right" -> Right
                            [] n = "Stray" -> Stray [] n = "Bottom" -> Bottom
                            [] n = "Loop" -> Loop [] OTHER -> Pool]]]

Catalogs == {TokenCatalog, DiamondCatalog}

(***************************************************************************)
(* The record of what a call invoked, in the order it invoked it.          *)
(***************************************************************************)
\* one invocation: the function, the name and the node it was given, and its
\* dictionary or script argument
Event(fn, on, id, arg) == [fn |-> fn, on |-> on, id |-> id, arg |-> arg]

Synthesizers == {"makeConstructor", "exposeNode", "scriptFunction", "stubFunction"}

(***************************************************************************)
(* mockContract, lines 29-41: lookup of the contract and flattening.       *)
(***************************************************************************)
\* the message of an Error, as the pieces of its template literal
NotFoundMessage(contractName, path) ==
    << "Could not find contract ", contractName, " in \"", path, "\"." >>

NotInScopeMessage(name, path) ==
    << "Contract ", name, " not in scope of ", path, "." >>

\* the callback without its check of the scope
resolveUnchecked(sourceInfo, path, name) ==
    [threw |-> FALSE, error |-> <<>>, value |-> Lookup(sourceInfo.scope, name),
     trace |-> << Event("resolve", name, NoObj, <<>>) >>]

\* the callback handed to flattenContract
resolve(sourceInfo, path, name) ==
    IF name \notin DOMAIN sourceInfo.scope
    THEN [threw |-> TRUE, error |-> NotInScopeMessage(name, path), value |-> Undefined,
          trace |-> << Event("resolve", name, NoObj, <<>>),
                       Event("console.log", "", NoObj, DOMAIN sourceInfo.scope) >>]
    ELSE [threw |-> FALSE, error |-> <<>>, value |-> sourceInfo.scope[name],
          trace |-> << Event("resolve", name, NoObj, <<>>) >>]

RECURSIVE linearize(_, _, _, _)
\* the ancestors reachable through names, furthest first, each visited once
linearize(sourceInfo, path, names, acc) ==
    IF acc.threw \/ names = <<>> THEN acc
    ELSE IF Head(names) \in acc.seen THEN linearize(sourceInfo, path, Tail(names), acc)
    ELSE LET r == resolve(sourceInfo, path, Head(names))
             entered == [acc EXCEPT !.seen = @ \cup {Head(names)}, !.trace = @ \o r.trace]
         IN  IF r.threw
             THEN [entered EXCEPT !.threw = TRUE, !.error = r.error]
             ELSE LET above == linearize(sourceInfo, path, BaseNames(r.value), entered)
                      here == IF above.threw THEN above
                              ELSE [above EXCEPT !.parents = Append(@, r.value)]
                  IN  linearize(sourceInfo, path, Tail(names), here)

\* an abstract function is superseded by a more derived function of its name
merge(members) ==
    LET Kept(i) == ~ (/\ members[i].type = "FunctionDefinition"
                      /\ ~ members[i].isConstructor
                      /\ members[i].body = "null"
                      /\ \E j \in (i+1)..Len(members) :
                            /\ members[j].type = "FunctionDefinition"
                            /\ ~ members[j].isConstructor
                            /\ members[j].name = members[i].name)
        RECURSIVE Keep(_)
        Keep(i) == IF i > Len(members) THEN <<>>
                   ELSE (IF Kept(i) THEN << members[i] >> ELSE <<>>) \o Keep(i + 1)
    IN  Keep(1)

\* flattenContract(contract, resolve): [flat, parents], or the callback's throw
flattenContract(sourceInfo, path, contract) ==
    IF contract.type = "undefined"
    THEN [threw |-> TRUE, error |-> << "TypeError" >>, flat |-> Undefined, parents |-> <<>>,
          trace |-> << Event("flattenContract", "", NoObj, <<>>) >>]
    ELSE LET lin == linearize(sourceInfo, path, BaseNames(contract),
                        [threw |-> FALSE, error |-> <<>>, parents |-> <<>>,
                         seen |-> {contract.name},
                         trace |-> << Event("flattenContract", contract.name, contract.id, <<>>) >>])
             all == Concat([i \in 1..Len(lin.parents) |-> lin.parents[i].subNodes])
                        \o contract.subNodes
         IN  IF lin.threw
             THEN [threw |-> TRUE, error |-> lin.error, flat |-> Undefined, parents |-> <<>>,
                   trace |-> lin.trace]
             ELSE [threw |-> FALSE, error |-> <<>>,
                   flat |-> [contract EXCEPT !.id = New(0), !.baseContracts = <<>>,
                                             !.subNodes = merge(all), !.gen = "flattenContract"],
                   parents |-> lin.parents, trace |-> lin.trace]

(***************************************************************************)
(* The synthesizers and helpers mockContract imports (constructor.ts,      *)
(* exposer.ts, scripter.ts, stubber.ts, utils.ts), by their contracts.     *)
(***************************************************************************)
\* utils.objectFilter(obj, f): the entries of obj whose key passes f
objectFilter(obj, keep) == [key \in DOMAIN obj \cap keep |-> obj[key]]

Generated(gen, func, name, isConstructor, visibility) ==
    [id |-> New(0), type |-> "FunctionDefinition", name |-> name,
     isConstructor |-> isConstructor, nparams |-> func.nparams, body |-> "block",
     visibility |-> visibility, gen |-> gen, of |-> func.id]

\* makeConstructor(args): one constructor calling each parent constructor in args
makeConstructor(args) ==
    [id |-> New(0), type |-> "FunctionDefinition", name |-> "", isConstructor |-> TRUE,
     nparams |-> 0, body |-> "block", visibility |-> "public", gen |-> "makeConstructor",
     of |-> NoObj]

\* exposeNode(node): the public wrappers of a member of restricted visibility
exposeNode(node) ==
    IF node.visibility = "internal" /\ ~ node.isConstructor
    THEN << Generated("exposeNode", node, node.name \o "Public", FALSE, "public") >>
    ELSE <<>>

\* scriptFunction(func, script): an override returning the scripted values
scriptFunction(func, script) ==
    Generated("scriptFunction", func, func.name, FALSE, func.visibility)

\* stubFunction(func): an override with a trivial body
stubFunction(func) ==
    << Generated("stubFunction", func, func.name, FALSE, func.visibility) >>

\* nonAbstractForcer(name): a contract that instantiates the contract name
nonAbstractForcer(name) ==
    [id |-> New(3), type |-> "ContractDefinition", kind |-> "contract",
     name |-> name \o "NonAbstractForcer", baseContracts |-> <<>>, subNodes |-> <<>>,
     path |-> "", gen |-> "nonAbstractForcer", target |-> name]

\* the objects a call creates are new: the k-th node of a list gets its own identity
Allocate(nodes, base) == [i \in 1..Len(nodes) |-> [nodes[i] EXCEPT !.id = New(base + i)]]

(***************************************************************************)
(* mockContract, lines 12 and 43-123.                                      *)
(***************************************************************************)
mockContractName(contractName) == contractName \o "Mock"

\* the lookup done in the scope instead of the contracts of the file
ContractInScope(sourceInfo, contractName) == contractName \in DOMAIN sourceInfo.scope

\* line 32: contractName in sourceInfo.contracts
ContractFound(sourceInfo, contractName) == contractName \in DOMAIN sourceInfo.contracts

\* the test of the parameter count off by one
NeedsSeveralArgs(parent) ==
    \E i \in 1..Len(parent.subNodes) :
        /\ parent.subNodes[i].type = "FunctionDefinition"
        /\ parent.subNodes[i].isConstructor
        /\ parent.subNodes[i].nparams > 1

\* lines 47-52: the parent declares a constructor that takes parameters
NeedsArgs(parent) ==
    \E i \in 1..Len(parent.subNodes) :
        /\ parent.subNodes[i].type = "FunctionDefinition"
        /\ parent.subNodes[i].isConstructor
        /\ parent.subNodes[i].nparams > 0

\* lines 45-54: the names of the parents whose constructor requires arguments
constructors(parents) ==
    LET needing == SelectSeq(parents, NeedsArgs)
    IN  [i \in 1..Len(needing) |-> needing[i].name]

NoArgumentsMessage(name, contractName) ==
    << "No arguments for constructor ", name, " in ", contractName, "." >>

\* lines 57-61: the names, in order, that have no entry in options.constructors
Unsupplied(names, opts) ==
    LET Missing(name) == name \notin DOMAIN opts.constructors
    IN  SelectSeq(names, Missing)

\* lines 65-67
abstracts(flat) ==
    LET IsAbstract(node) == node.type = "FunctionDefinition" /\ node.body = "null"
    IN  SelectSeq(flat.subNodes, IsAbstract)

\* line 70: name && name in options.scripted
scripted(abs, opts) ==
    LET Test(func) == func.name # "" /\ func.name \in DOMAIN opts.scripted
    IN  SelectSeq(abs, Test)

\* line 71: name && !(name in options.scripted)
mocked(abs, opts) ==
    LET Test(func) == func.name # "" /\ func.name \notin DOMAIN opts.scripted
    IN  SelectSeq(abs, Test)

\* options.constructors handed over without the filter
AllConstructorArgs(opts, names) == opts.constructors

\* line 88: the dictionary handed to makeConstructor
ConstructorArgs(opts, names) == objectFilter(opts.constructors, Range(names))

\* the last two spreads of the array literal exchanged
StubsBeforeScripts(ctor, exposed, scripts, stubs) ==
    << ctor >> \o exposed \o stubs \o scripts

\* lines 86-98: the members of the mock, in the order the array literal lists them
MockSubNodes(ctor, exposed, scripts, stubs) == << ctor >> \o exposed \o scripts \o stubs

\* lines 86-98: the invocations that build the members, in evaluation order
SynthesisTrace(flat, names, sc, mo, opts) ==
    << Event("makeConstructor", "", NoObj, ConstructorArgs(opts, names)) >>
    \o [i \in 1..Len(flat.subNodes) |->
          Event("exposeNode", flat.subNodes[i].name, flat.subNodes[i].id, <<>>)]
    \o [i \in 1..Len(sc) |->
          Event("scriptFunction", sc[i].name, sc[i].id, Lookup(opts.scripted, sc[i].name))]
    \o [i \in 1..Len(mo) |-> Event("stubFunction", mo[i].name, mo[i].id, <<>>)]

\* lines 74-99: the mock contract
Mock(contractName, flat, names, sc, mo, opts) ==
    [id |-> New(2), type |-> "ContractDefinition", kind |-> "contract",
     name |-> mockContractName(contractName),
     baseContracts |-> << InheritanceSpecifier(contractName) >>,
     subNodes |-> Allocate(
        MockSubNodes(makeConstructor(ConstructorArgs(opts, names)),
                     Concat([i \in 1..Len(flat.subNodes) |-> exposeNode(flat.subNodes[i])]),
                     [i \in 1..Len(sc) |-> scriptFunction(sc[i], Lookup(opts.scripted, sc[i].name))],
                     Concat([i \in 1..Len(mo) |-> stubFunction(mo[i])])), 3),
     path |-> "", gen |-> "mockContract", target |-> ""]

\* the filter keeping every directive instead of the pragma directives
Directives(children) ==
    LET IsDirective(node) == node.type \in {"PragmaDirective", "ImportDirective"}
    IN  SelectSeq(children, IsDirective)

\* line 106: the pragma directives of the source file
Pragmas(children) ==
    LET IsPragma(node) == node.type = "PragmaDirective"
    IN  SelectSeq(children, IsPragma)

\* lines 110-114
ImportOf(path) ==
    [id |-> New(1), type |-> "ImportDirective", kind |-> "", name |-> "",
     baseContracts |-> <<>>, subNodes |-> <<>>, path |-> path, gen |-> "mockContract",
     target |-> ""]

\* lines 102-122: the children of the returned source unit
Children(pragmas, import, mock, forcer) == pragmas \o << import, mock, forcer >>

NoUnit == [type |-> "undefined", children |-> <<>>]

Thrown(message, line) == [kind |-> "throw", error |-> message, line |-> line, value |-> NoUnit]

Returned(unit) == [kind |-> "return", error |-> <<>>, line |-> 0, value |-> unit]

NoLocals ==
    [flat |-> Undefined, parents |-> <<>>, constructors |-> <<>>, abstracts |-> <<>>,
     scripted |-> <<>>, mocked |-> <<>>]

\* lines 43-122: the call from the flattened contract on
assemble(sourceInfo, path, contractName, opts, fl) ==
    LET names == constructors(fl.parents)
        missing == Unsupplied(names, opts)
        abs == abstracts(fl.flat)
        sc == scripted(abs, opts)
        mo == mocked(abs, opts)
        name == mockContractName(contractName)
    IN  IF missing # <<>>
        THEN [outcome |-> Thrown(NoArgumentsMessage(Head(missing), contractName), 59),
              locals |-> [NoLocals EXCEPT !.flat = fl.flat, !.parents = fl.parents,
                                          !.constructors = names],
              trace |-> fl.trace]
        ELSE [outcome |-> Returned(
                [type |-> "SourceUnit",
                 children |-> Children(Pragmas(sourceInfo.parsed.children), ImportOf(path),
                                       Mock(contractName, fl.flat, names, sc, mo, opts),
                                       nonAbstractForcer(name))]),
              locals |-> [flat |-> fl.flat, parents |-> fl.parents, constructors |-> names,
                          abstracts |-> abs, scripted |-> sc, mocked |-> mo],
              trace |-> fl.trace \o SynthesisTrace(fl.flat, names, sc, mo, opts)
                          \o << Event("nonAbstractForcer", name, NoObj, <<>>) >>]

\* lines 29-41, then the rest: outcome, locals and invocations of one call
run(srcs, path, contractName, opts) ==
    IF path \notin DOMAIN srcs
    THEN [outcome |-> Thrown(<< "TypeError" >>, 32), locals |-> NoLocals, trace |-> <<>>]
    ELSE IF ~ ContractFound(srcs[path], contractName)
    THEN [outcome |-> Thrown(NotFoundMessage(contractName, path), 33),
          locals |-> NoLocals, trace |-> <<>>]
    ELSE LET fl == flattenContract(srcs[path], path, Lookup(srcs[path].contracts, contractName))
         IN  IF fl.threw
             THEN [outcome |-> Thrown(fl.error, 35), locals |-> NoLocals, trace |-> fl.trace]
             ELSE assemble(srcs[path], path, contractName, opts, fl)

\* the pragma directives selected by removing the other children in place
mockContractInPlace(srcs, path, contractName, opts) ==
    [sources |-> IF run(srcs, path, contractName, opts).outcome.kind = "return"
                 THEN [srcs EXCEPT ![path].parsed.children = Pragmas(@)]
                 ELSE srcs,
     options |-> opts, result |-> run(srcs, path, contractName, opts)]

\* lines 23-123: mockContract with what it leaves of its arguments; it assigns to
\* no property of sources or options, and filter, map, some and includes build
\* new arrays
mockContract(srcs, path, contractName, opts) ==
    [sources |-> srcs, options |-> opts, result |-> run(srcs, path, contractName, opts)]

(***************************************************************************)
(* The state machine: a caller that mocks contracts of a loaded catalog.   *)
(***************************************************************************)
Literals == {"0x01"}

\* the scripts a caller supplies for a function: the values to return, in order
Scripts == {<< "5", "7" >>}

NoOptions == [constructors |-> <<>>, scripted |-> <<>>]

NoCall == [path |-> "", contractName |-> "", options |-> NoOptions]

NoOutcome == [kind |-> "none", error |-> <<>>, line |-> 0, value |-> NoUnit]

Paths(srcs) == DOMAIN srcs \cup {"Missing.sol"}

ContractNames(srcs) ==
    UNION {DOMAIN srcs[p].scope \cup DOMAIN srcs[p].contracts : p \in DOMAIN srcs}
        \cup {"Nope"}

ConstructorKeys(srcs) ==
    IF "Token.sol" \in DOMAIN srcs THEN {"Ownable", "Base", "Token"}
    ELSE {"Root", "Right", "Pool"}

ScriptedKeys(srcs) ==
    IF "Token.sol" \in DOMAIN srcs THEN {"rate", "limit", ""} ELSE {"f", "g", "h"}

OptionsFor(srcs) ==
    [constructors : Dicts(ConstructorKeys(srcs), SeqsUpTo(Literals, MaxArgs)),
     scripted : Dicts(ScriptedKeys(srcs), Scripts)]

Init ==
    /\ sources \in Catalogs
    /\ loaded = sources
    /\ call = NoCall
    /\ options = NoOptions
    /\ outcome = NoOutcome
    /\ locals = NoLocals
    /\ trace = <<>>
    /\ calls = 0

\* one call of mockContract
MockContract(path, contractName, opts) ==
    /\ outcome.kind = "none"
    /\ calls < MaxCalls
    /\ calls' = calls + 1
    /\ LET after == mockContract(sources, path, contractName, opts)
       IN  /\ sources' = after.sources
           /\ options' = after.options
           /\ outcome' = after.result.outcome
           /\ locals' = after.result.locals
           /\ trace' = after.result.trace
    /\ call' = [path |-> path, contractName |-> contractName, options |-> opts]
    /\ UNCHANGED loaded

\* the caller takes the outcome; nothing of the call stays behind
Handoff ==
    /\ outcome.kind # "none"
    /\ call' = NoCall
    /\ options' = NoOptions
    /\ outcome' = NoOutcome
    /\ locals' = NoLocals
    /\ trace' = <<>>
    /\ UNCHANGED <<sources, loaded, calls>>

Next ==
    \/ \E path \in Paths(sources), contractName \in ContractNames(sources),
          opts \in OptionsFor(sources) : MockContract(path, contractName, opts)
    \/ Handoff

Spec == Init /\ [][Next]_vars

(***************************************************************************)
(* Vocabulary of the properties.                                           *)
(***************************************************************************)
Called == outcome.kind # "none"

Succeeded == outcome.kind = "return"

Failed == outcome.kind = "throw" /\ outcome.value = NoUnit

\* the strings interpolated into (or making up) the message of the thrown error
Mentions == Range(outcome.error)

Invoked(fns) == {i \in 1..Len(trace) : trace[i].fn \in fns}

\* the contract declares a constructor with at least one parameter
TakesArguments(contract) ==
    \E node \in Range(contract.subNodes) :
        node.type = "FunctionDefinition" /\ node.isConstructor /\ node.nparams >= 1

\* the ancestors of the call that take arguments and got none in options.constructors
Unserved ==
    {p \in Range(locals.parents) :
        TakesArguments(p) /\ p.name \notin DOMAIN call.options.constructors}

\* the body-less function declarations of the flattened contract
AbstractFunctions ==
    {node \in Range(locals.flat.subNodes) :
        node.type = "FunctionDefinition" /\ node.body = "null"}

\* the position of the member with identity id in the flattened contract
FlatPosition(id) ==
    CHOOSE i \in 1..Len(locals.flat.subNodes) : locals.flat.subNodes[i].id = id

\* the mock contract of the returned source unit
ReturnedMock ==
    CHOOSE node \in Range(outcome.value.children) :
        node.type = "ContractDefinition" /\ node.gen = "mockContract"

\* the members of the returned mock that synthesizer gen produced, in order
Group(gen) ==
    LET FromGen(node) == node.gen = gen
    IN  SelectSeq(ReturnedMock.subNodes, FromGen)

OfIds(nodes) == [i \in 1..Len(nodes) |-> nodes[i].of]

Identities(nodes) == [i \in 1..Len(nodes) |-> nodes[i].id]

Anonymous(nodes) == [i \in 1..Len(nodes) |-> [nodes[i] EXCEPT !.id = NoObj]]

\* the identities of the objects the catalog holds
CatalogIds ==
    UNION {
        LET tops == Range(sources[p].parsed.children)
                        \cup {sources[p].contracts[n] : n \in DOMAIN sources[p].contracts}
                        \cup {sources[p].scope[n] : n \in DOMAIN sources[p].scope}
        IN  {t.id : t \in tops} \cup UNION {{m.id : m \in Range(t.subNodes)} : t \in tops}
        : p \in DOMAIN sources}

\* the identities of the objects reachable from the returned source unit
ReturnedIds ==
    {t.id : t \in Range(outcome.value.children)}
        \cup UNION {{m.id : m \in Range(t.subNodes)} : t \in Range(outcome.value.children)}

(***************************************************************************)
(* Properties.                                                             *)
(***************************************************************************)
\* C1: when an ancestor in parents declares a constructor with at least one
\* parameter and its name is no key of options.constructors, the call throws an
\* error that names such an ancestor and the target contract, returns no source
\* unit, and has invoked no synthesizer.
C1_MissingConstructorArgsFailFast ==
    Unserved # {} =>
        /\ Failed
        /\ \E p \in Unserved : p.name \in Mentions
        /\ call.contractName \in Mentions
        /\ Invoked(Synthesizers) = {}

C1_Witness ==
    /\ Failed
    /\ Unserved # {}
    /\ \E p \in Range(locals.parents) : TakesArguments(p) /\ p \notin Unserved

\* C2: after a successful call every body-less function of flat.subNodes is in
\* exactly one of scripted and mocked, and is handed to exactly one of
\* scriptFunction and stubFunction.
C2_AbstractsPartitioned ==
    Succeeded =>
        \A f \in AbstractFunctions :
            /\ (f \in Range(locals.scripted)) # (f \in Range(locals.mocked))
            /\ Cardinality({i \in Invoked({"scriptFunction", "stubFunction"}) :
                                trace[i].id = f.id}) = 1

\* C3: after a successful call every body-less function of flat.subNodes that
\* has no name is in mocked and was passed to stubFunction, and is not in
\* scripted, whatever the keys of options.scripted.
C3_UnnamedAbstractsStubbed ==
    Succeeded =>
        \A f \in AbstractFunctions :
            f.name = "" =>
                /\ f \in Range(locals.mocked)
                /\ f \notin Range(locals.scripted)
                /\ \E i \in Invoked({"stubFunction"}) : trace[i].id = f.id

\* C4: when sources[path] exists and contractName is no key of its contracts,
\* the call throws an error carrying the contract name and the path, invokes
\* neither the flattener nor its resolve callback nor anything else, and
\* constructs no output, whatever the options.
C4_UnknownContractFails ==
    (/\ Called
     /\ call.path \in DOMAIN sources
     /\ call.contractName \notin DOMAIN sources[call.path].contracts) =>
        /\ Failed
        /\ call.contractName \in Mentions
        /\ call.path \in Mentions
        /\ trace = <<>>
        /\ locals = NoLocals

C4_Witness ==
    /\ Failed
    /\ call.path \in DOMAIN sources
    /\ call.contractName \notin DOMAIN sources[call.path].contracts
    /\ call.contractName \in DOMAIN sources[call.path].scope
    /\ DOMAIN call.options.constructors # {}
    /\ DOMAIN call.options.scripted # {}

\* C5: after a successful call makeConstructor was invoked once, with a
\* dictionary whose keys are exactly the names of the ancestors in parents that
\* declare a constructor with at least one parameter, each mapped to the
\* argument list options.constructors gives it.
C5_ConstructorArgsFiltered ==
    Succeeded =>
        /\ Cardinality(Invoked({"makeConstructor"})) = 1
        /\ \A i \in Invoked({"makeConstructor"}) :
              /\ DOMAIN trace[i].arg =
                    {p.name : p \in {q \in Range(locals.parents) : TakesArguments(q)}}
              /\ \A key \in DOMAIN trace[i].arg :
                    trace[i].arg[key] = call.options.constructors[key]

C5_Witness ==
    /\ Succeeded
    /\ \E i \in Invoked({"makeConstructor"}) :
          /\ DOMAIN trace[i].arg # {}
          /\ \E key \in DOMAIN trace[i].arg : trace[i].arg[key] # <<>>
          /\ \E key \in DOMAIN call.options.constructors :
                /\ key \notin DOMAIN trace[i].arg
                /\ key \in {p.name : p \in Range(locals.parents)}
          /\ \E key \in DOMAIN call.options.constructors :
                /\ key \notin DOMAIN trace[i].arg
                /\ key \notin {p.name : p \in Range(locals.parents)}

\* C6: the members of a returned mock are one forwarding constructor, then the
\* outputs of exposeNode over flat.subNodes in flat.subNodes order, then the
\* scripted overrides in the order of their functions in flat.subNodes, then
\* the stubs in the order of their functions in flat.subNodes.
C6_MockMemberOrder ==
    Succeeded =>
        LET sub == ReturnedMock.subNodes
            Rank(node) == CASE node.gen = "makeConstructor" -> 1
                            [] node.gen = "exposeNode" -> 2
                            [] node.gen = "scriptFunction" -> 3
                            [] node.gen = "stubFunction" -> 4
                            [] OTHER -> 0
        IN  /\ \A i \in 1..Len(sub) : Rank(sub[i]) > 0
            /\ Len(Group("makeConstructor")) = 1
            /\ \A i, j \in 1..Len(sub) : i < j => Rank(sub[i]) <= Rank(sub[j])
            /\ \A i, j \in 1..Len(sub) :
                  (i < j /\ Rank(sub[i]) = Rank(sub[j])) =>
                      IF sub[i].gen = "exposeNode"
                      THEN FlatPosition(sub[i].of) <= FlatPosition(sub[j].of)
                      ELSE FlatPosition(sub[i].of) < FlatPosition(sub[j].of)
            /\ Anonymous(Group("exposeNode")) =
                  Anonymous(Concat([i \in 1..Len(locals.flat.subNodes) |->
                                        exposeNode(locals.flat.subNodes[i])]))
            /\ OfIds(Group("scriptFunction")) = Identities(locals.scripted)
            /\ OfIds(Group("stubFunction")) = Identities(locals.mocked)

C6_Witness ==
    /\ Succeeded
    /\ Len(Group("exposeNode")) >= 2
    /\ Len(Group("scriptFunction")) >= 2
    /\ Len(Group("stubFunction")) >= 2

\* C7: the children of a returned source unit are the pragma directives among
\* the top-level children of sources[path].parsed and nothing else of them, in
\* their order; then one import directive of path; then the mock contract, named
\* contractName + "Mock", whose only base contract is contractName; then one
\* non-abstract forcer built for that mock name.
C7_SourceUnitChildren ==
    Succeeded =>
        LET children == outcome.value.children
            original == sources[call.path].parsed.children
            kept == {i \in 1..Len(original) : original[i].type = "PragmaDirective"}
            n == Cardinality(kept)
            \* the index in original of the k-th pragma directive
            At(k) == CHOOSE i \in kept : Cardinality({j \in kept : j <= i}) = k
        IN  /\ Len(children) = n + 3
            /\ \A k \in 1..n : children[k] = original[At(k)]
            /\ children[n + 1].type = "ImportDirective"
            /\ children[n + 1].path = call.path
            /\ children[n + 2].type = "ContractDefinition"
            /\ children[n + 2].name = call.contractName \o "Mock"
            /\ BaseNames(children[n + 2]) = << call.contractName >>
            /\ children[n + 3].gen = "nonAbstractForcer"
            /\ children[n + 3].target = call.contractName \o "Mock"
            /\ Cardinality(Invoked({"nonAbstractForcer"})) = 1

C7_Witness ==
    /\ Succeeded
    /\ Len(outcome.value.children) = 5
    /\ \E i \in 1..Len(sources[call.path].parsed.children) :
          /\ sources[call.path].parsed.children[i].type = "ImportDirective"
          /\ \E j \in (i + 1)..Len(sources[call.path].parsed.children) :
                sources[call.path].parsed.children[j].type = "PragmaDirective"

\* the base-contract names the flattener asked to resolve that are no key of
\* sources[path].scope
Unresolvable ==
    IF call.path \in DOMAIN sources
    THEN {trace[i].on : i \in {j \in Invoked({"resolve"}) :
                                  trace[j].on \notin DOMAIN sources[call.path].scope}}
    ELSE {}

\* C8, as claimed: when flattening asks to resolve a name that is no key of
\* sources[path].scope, the call throws an error that identifies the missing
\* name and the contract being flattened, returns nothing, and reaches neither
\* the constructor-argument validation nor a synthesizer.
C8_Original ==
    Unresolvable # {} =>
        /\ Failed
        /\ \E name \in Unresolvable : name \in Mentions
        /\ call.contractName \in Mentions
        /\ locals = NoLocals
        /\ Invoked(Synthesizers) = {}

\* C8, amended: when flattening asks to resolve a name that is no key of
\* sources[path].scope, the call throws an error that identifies the missing
\* name and the path, returns nothing, and reaches neither the
\* constructor-argument validation nor a synthesizer.
C8_UnresolvableBaseFails ==
    Unresolvable # {} =>
        /\ Failed
        /\ \E name \in Unresolvable : name \in Mentions
        /\ call.path \in Mentions
        /\ locals = NoLocals
        /\ Invoked(Synthesizers) = {}

C8_Witness ==
    /\ Failed
    /\ Unresolvable # {}
    /\ Cardinality(Invoked({"resolve"})) >= 3

C10_ReturnedTreeIndependent ==
    Succeeded => ReturnedIds \cap CatalogIds = {}

====
